---------------------------- MODULE Spec2Model ----------------------------
(***************************************************************************)
(* A model of Auto-Launcher (src/auto_launcher.py): the item launcher      *)
(* (launch_item, is_running), the sequencer threads (_threaded_launch,     *)
(* _threaded_launch_items), the user operations that start them, and the   *)
(* scheduler (schedule_selected, _parse_time_to_seconds).                  *)
(*                                                                         *)
(* Text the program takes apart character by character (launch targets,    *)
(* time strings) is a sequence of one-character strings; text it only      *)
(* builds and shows (labels, messages, status and log lines) is a string.  *)
(***************************************************************************)
EXTENDS Integers, Sequences, FiniteSets, TLC

VARIABLES
    cfg,        \* self.cfg: the loaded JSON document
    selected,   \* self.selected: the profile name shown in the combobox
    preview,    \* self._current_preview: the rows of the preview table
    progress,   \* self.progress: the one Progressbar, [value, maximum]
    status,     \* self.status: the lines of the status Text widget
    logfile,    \* auto_launcher_log.txt: the lines appended so far
    runs,       \* the sequencer threads started so far, in start order
    timers,     \* the threading.Timer objects armed so far
    dialogs,    \* the message boxes shown so far
    procs,      \* the host: names of the processes now running
    alive,      \* the application (its main loop) is still running
    budget,     \* user operations still allowed (bounds the behaviours)
    call        \* one call of a pure function: its inputs and its result

vars == <<cfg, selected, preview, progress, status, logfile, runs, timers,
          dialogs, procs, alive, budget, call>>

appVars == <<cfg, selected, preview, progress, status, logfile, runs, timers,
             dialogs, procs, alive, budget>>

(***************************************************************************)
(* Bounds of the model.                                                    *)
(***************************************************************************)
MaxOps == 2        \* user operations in one behaviour of Spec
SoloOps == 2       \* user operations in one behaviour of SpecSolo
SchedOps == 2      \* user operations in one behaviour of SpecSched
PairOps == 2       \* user operations in one behaviour of SpecPair
MaxLog == 4        \* lines of the log file that usage_summary reads

(***************************************************************************)
(* Python values.                                                          *)
(***************************************************************************)
None == "<None>"                       \* Python's None, where a string may stand

PyStr(v) == IF v = None THEN "None" ELSE v      \* str(v), f"{v}" of a str or None

RECURSIVE Join(_)
Join(s) == IF s = <<>> THEN "" ELSE s[1] \o Join(Tail(s))   \* chars -> string

UpperChars == <<"A","B","C","D","E","F","G","H","I","J","K","L","M",
                "N","O","P","Q","R","S","T","U","V","W","X","Y","Z">>
LowerChars == <<"a","b","c","d","e","f","g","h","i","j","k","l","m",
                "n","o","p","q","r","s","t","u","v","w","x","y","z">>

LowerChar(c) ==
    IF \E i \in 1..Len(UpperChars) : UpperChars[i] = c
    THEN LowerChars[CHOOSE i \in 1..Len(UpperChars) : UpperChars[i] = c]
    ELSE c

Lower(s) == [i \in 1..Len(s) |-> LowerChar(s[i])]             \* str.lower()

Whitespace == {" ", "\t"}

RECURSIVE LStrip(_)
LStrip(s) == IF s # <<>> /\ s[1] \in Whitespace THEN LStrip(Tail(s)) ELSE s

RECURSIVE RStrip(_)
RStrip(s) ==
    IF s # <<>> /\ s[Len(s)] \in Whitespace
    THEN RStrip(SubSeq(s, 1, Len(s) - 1)) ELSE s

Strip(s) == RStrip(LStrip(s))                                 \* str.strip()

RemoveSpaces(s) == SelectSeq(s, LAMBDA c : c # " ")           \* .replace(" ", "")

EndsWith(s, suf) ==                                           \* str.endswith
    /\ Len(s) >= Len(suf)
    /\ SubSeq(s, Len(s) - Len(suf) + 1, Len(s)) = suf

\* s.split(sep) for a one-character sep: always at least one part.
RECURSIVE Split(_, _)
Split(s, sep) ==
    IF \E i \in 1..Len(s) : s[i] = sep
    THEN LET i == CHOOSE k \in 1..Len(s) :
                      s[k] = sep /\ \A j \in 1..(k - 1) : s[j] # sep
         IN  <<SubSeq(s, 1, i - 1)>> \o Split(SubSeq(s, i + 1, Len(s)), sep)
    ELSE <<s>>

Digits == <<"0","1","2","3","4","5","6","7","8","9">>
IsDigit(c) == \E i \in 1..10 : Digits[i] = c
DigitVal(c) == (CHOOSE i \in 1..10 : Digits[i] = c) - 1

\* int(s): surrounding whitespace, one optional sign, digits with single
\* underscores between them.  PyIntOk is "does not raise ValueError".
PyIntBody(s) ==
    LET t == Strip(s) IN
    IF t # <<>> /\ t[1] \in {"+", "-"} THEN Tail(t) ELSE t

PyIntOk(s) ==
    LET b == PyIntBody(s) IN
    /\ b # <<>>
    /\ \A i \in 1..Len(b) : IsDigit(b[i]) \/ b[i] = "_"
    /\ IsDigit(b[1]) /\ IsDigit(b[Len(b)])
    /\ \A i \in 1..(Len(b) - 1) : ~(b[i] = "_" /\ b[i + 1] = "_")

RECURSIVE DigitsVal(_)
DigitsVal(b) ==
    IF b = <<>> THEN 0
    ELSE LET init == SubSeq(b, 1, Len(b) - 1) IN
         IF b[Len(b)] = "_" THEN DigitsVal(init)
         ELSE 10 * DigitsVal(init) + DigitVal(b[Len(b)])

PyInt(s) ==
    LET t == Strip(s) IN
    IF t # <<>> /\ t[1] = "-" THEN 0 - DigitsVal(PyIntBody(s))
    ELSE DigitsVal(PyIntBody(s))

(***************************************************************************)
(* LauncherUI._parse_time_to_seconds.  The result is None or an int.       *)
(***************************************************************************)
NoTime == [none |-> TRUE, secs |-> 0]
Time(n) == [none |-> FALSE, secs |-> n]

AM == <<"a", "m">>
PM == <<"p", "m">>

\* Mutant: the 12-hour normalisation adds 12 to every pm hour, 12pm included.
ParseTimeAddsTwelveAtNoon(timestr) ==
    LET s0    == RemoveSpaces(Lower(Strip(timestr)))
        sfx   == EndsWith(s0, AM) \/ EndsWith(s0, PM)
        ampm  == IF sfx THEN SubSeq(s0, Len(s0) - 1, Len(s0)) ELSE <<>>
        s     == IF sfx THEN SubSeq(s0, 1, Len(s0) - 2) ELSE s0
        parts == Split(s, ":")
    IN  IF Len(parts) # 2 THEN NoTime
        ELSE IF ~(PyIntOk(parts[1]) /\ PyIntOk(parts[2])) THEN NoTime
        ELSE LET hh0 == PyInt(parts[1])
                 mm  == PyInt(parts[2])
                 hh  == IF ampm = PM THEN hh0 + 12 ELSE
                        IF ampm = AM /\ hh0 = 12 THEN 0 ELSE hh0
             IN  IF ~(0 <= hh /\ hh <= 23 /\ 0 <= mm /\ mm <= 59) THEN NoTime
                 ELSE Time(hh * 3600 + mm * 60)

ParseTimeToSeconds(timestr) ==
    LET s0    == RemoveSpaces(Lower(Strip(timestr)))
        sfx   == EndsWith(s0, AM) \/ EndsWith(s0, PM)
        ampm  == IF sfx THEN SubSeq(s0, Len(s0) - 1, Len(s0)) ELSE <<>>
        s     == IF sfx THEN SubSeq(s0, 1, Len(s0) - 2) ELSE s0
        parts == Split(s, ":")
    IN  IF Len(parts) # 2 THEN NoTime               \* unpacking raises
        ELSE IF ~(PyIntOk(parts[1]) /\ PyIntOk(parts[2])) THEN NoTime
        ELSE LET hh0 == PyInt(parts[1])
                 mm  == PyInt(parts[2])
                 hh  == IF ampm = PM /\ hh0 # 12 THEN hh0 + 12 ELSE
                        IF ampm = AM /\ hh0 = 12 THEN 0 ELSE hh0
             IN  IF ~(0 <= hh /\ hh <= 23 /\ 0 <= mm /\ mm <= 59) THEN NoTime
                 ELSE Time(hh * 3600 + mm * 60)

(***************************************************************************)
(* schedule_selected: the delay until the target time of day.              *)
(***************************************************************************)
DaySeconds == 24 * 3600

NowSecs(now) == now.hour * 3600 + now.minute * 60 + now.second

\* Mutant: a target equal to now waits a whole day.
ScheduleDelayNeverZero(target, now_secs) ==
    IF (target - now_secs) % DaySeconds = 0 THEN DaySeconds
    ELSE (target - now_secs) % DaySeconds

ScheduleDelay(target, now_secs) == (target - now_secs) % DaySeconds


(***************************************************************************)
(* The host as launch_item meets it.  One enumeration of the processes     *)
(* (psutil.process_iter) is a sequence of events: a process with a name,   *)
(* a process whose name is not available (None), a process whose info      *)
(* raises NoSuchProcess or AccessDenied when read, or the iterator itself  *)
(* raising.  Popen of a target succeeds, raises FileNotFoundError, or      *)
(* raises another OSError (PermissionError, ...).                          *)
(***************************************************************************)
ProcNamed(n)  == [kind |-> "name", name |-> n]
ProcNoName    == [kind |-> "noname", name |-> <<>>]
ProcVanished  == [kind |-> "vanished", name |-> <<>>]
ProcDenied    == [kind |-> "denied", name |-> <<>>]
IterFails     == [kind |-> "iterfail", name |-> <<>>]

PopenOutcomes == {"ok", "notfound", "oserror"}

OsCall(op, arg) == [op |-> op, arg |-> arg]

\* os.path.basename: ntpath drops a drive and cuts after the last / or \,
\* posixpath cuts after the last /.
PathSeps(platform) == IF platform = "nt" THEN {"/", "\\"} ELSE {"/"}

Basename(p, platform) ==
    LET q == IF platform = "nt" /\ Len(p) >= 2 /\ p[2] = ":"
             THEN SubSeq(p, 3, Len(p)) ELSE p
        cuts == {i \in 1..Len(q) : q[i] \in PathSeps(platform)}
        last == IF cuts = {} THEN 0
                ELSE CHOOSE i \in cuts : \A j \in cuts : j <= i
    IN  SubSeq(q, last + 1, Len(q))

ExeSuffix == <<".", "e", "x", "e">>

\* is_running: [raised, value].  The try of lines 87-92 covers the body of
\* the loop; the iterator of line 86 is outside it.
RECURSIVE is_running(_, _)
is_running(exe_name_lower, enum) ==
    IF enum = <<>> THEN [raised |-> FALSE, value |-> FALSE]
    ELSE LET proc == enum[1] IN
         IF proc.kind = "iterfail" THEN [raised |-> TRUE, value |-> FALSE]
         ELSE IF proc.kind = "name" /\ proc.name # <<>>
                 /\ Lower(proc.name) = exe_name_lower
              THEN [raised |-> FALSE, value |-> TRUE]
         ELSE is_running(exe_name_lower, Tail(enum))   \* no name, or continue

(***************************************************************************)
(* launch_item.  An item is a JSON object: a function on a subset of       *)
(* {"type", "label", "target"}.  The result is what the call returned or   *)
(* that it raised, and the calls it made at the OS boundary, in order.     *)
(***************************************************************************)
ItemType(item)   == IF "type" \in DOMAIN item THEN item["type"] ELSE None
ItemLabel(item)  == IF "label" \in DOMAIN item THEN item["label"]
                    ELSE ItemType(item)
ItemTarget(item) == IF "target" \in DOMAIN item THEN item["target"]
                    ELSE <<"N", "o", "n", "e">>            \* str(None)

Returned(msg, calls) == [raised |-> FALSE, msg |-> msg, calls |-> calls]
Raised(calls)        == [raised |-> TRUE, msg |-> "", calls |-> calls]

\* Mutant: FileNotFoundError is not caught.
LaunchItemRaisesNotFound(item, avoid_duplicates, platform, enum, popen) ==
    LET itype  == ItemType(item)
        label  == PyStr(ItemLabel(item))
        target == ItemTarget(item)
    IN
    IF itype = "url"
    THEN Returned("Opened URL: " \o label, <<OsCall("url", target)>>)
    ELSE IF itype = "app"
    THEN LET exe_name == Lower(Basename(target, platform))
             probes   == avoid_duplicates /\ EndsWith(exe_name, ExeSuffix)
             probe    == is_running(exe_name, enum)
             pcalls   == IF probes THEN <<OsCall("probe", exe_name)>> ELSE <<>>
         IN  IF probes /\ probe.raised THEN Raised(pcalls)
             ELSE IF probes /\ probe.value
             THEN Returned("Already running: " \o label, pcalls)
             ELSE LET calls == pcalls \o <<OsCall("spawn", target)>> IN
                  IF popen = "ok"
                  THEN Returned("Launched app: " \o label, calls)
                  ELSE Raised(calls)
    ELSE Returned("Unknown item type: " \o PyStr(itype), <<>>)

\* Mutant: an unrecognised type falls through to the app branch.
LaunchItemSpawnsUnknown(item, avoid_duplicates, platform, enum, popen) ==
    LET itype  == ItemType(item)
        label  == PyStr(ItemLabel(item))
        target == ItemTarget(item)
    IN
    IF itype = "url"
    THEN Returned("Opened URL: " \o label, <<OsCall("url", target)>>)
    ELSE LET calls == <<OsCall("spawn", target)>> IN
         IF popen = "ok" THEN Returned("Launched app: " \o label, calls)
         ELSE IF popen = "notfound"
         THEN Returned("Not found: " \o label \o " (" \o Join(target) \o ")",
                       calls)
         ELSE Raised(calls)

launch_item(item, avoid_duplicates, platform, enum, popen) ==
    LET itype  == ItemType(item)
        label  == PyStr(ItemLabel(item))
        target == ItemTarget(item)
    IN
    IF itype = "url"
    THEN Returned("Opened URL: " \o label, <<OsCall("url", target)>>)
    ELSE IF itype = "app"
    THEN LET exe_name == Lower(Basename(target, platform))
             probes   == avoid_duplicates /\ EndsWith(exe_name, ExeSuffix)
             probe    == is_running(exe_name, enum)
             pcalls   == IF probes THEN <<OsCall("probe", exe_name)>> ELSE <<>>
         IN  IF probes /\ probe.raised THEN Raised(pcalls)
             ELSE IF probes /\ probe.value
             THEN Returned("Already running: " \o label, pcalls)
             ELSE LET calls == pcalls \o <<OsCall("spawn", target)>> IN
                  IF popen = "ok"
                  THEN Returned("Launched app: " \o label, calls)
                  ELSE IF popen = "notfound"
                  THEN Returned("Not found: " \o label \o " (" \o Join(target)
                                \o ")", calls)
                  ELSE Raised(calls)
    ELSE Returned("Unknown item type: " \o PyStr(itype), <<>>)

(***************************************************************************)
(* The configuration (load_config, LauncherUI.__init__).  cfg["profiles"]  *)
(* is an ordered mapping: a sequence of [name, items] with distinct names. *)
(***************************************************************************)
ProfileNames == [i \in 1..Len(cfg.profiles) |-> cfg.profiles[i].name]  \* self.profiles

\* self.cfg["profiles"].get(name, [])
ProfileGet(name) ==
    IF \E i \in 1..Len(cfg.profiles) : cfg.profiles[i].name = name
    THEN cfg.profiles[CHOOSE i \in 1..Len(cfg.profiles) :
                          cfg.profiles[i].name = name].items
    ELSE <<>>

\* self.avoid_dupes = bool(launch_cfg.get("avoid_duplicates", True))
AvoidDupes ==
    IF "avoid_duplicates" \in DOMAIN cfg.launch
    THEN cfg.launch["avoid_duplicates"] ELSE TRUE

FirstProfile == IF Len(cfg.profiles) > 0 THEN cfg.profiles[1].name ELSE ""

(***************************************************************************)
(* The host the application runs on.                                       *)
(***************************************************************************)
HostPlatform == "nt"

UrlMail    == <<"h","t","t","p",":","/","/","m">>
PathEditor == <<"C",":","\\","E","d",".","E","X","E">>
PathSync   == <<"/","o","/","s","y","n","c">>
PathVault  == <<"v",".","e","x","e">>

HostFiles  == {PathEditor}            \* Popen of these starts a process
HostLocked == {PathVault}             \* Popen of these raises PermissionError

Popen(target) ==
    IF target \in HostFiles THEN "ok"
    ELSE IF target \in HostLocked THEN "oserror" ELSE "notfound"

RECURSIVE SetToSeq(_)
SetToSeq(S) ==
    IF S = {} THEN <<>>
    ELSE LET x == CHOOSE y \in S : TRUE IN <<x>> \o SetToSeq(S \ {x})

NamedProcs(P) == LET q == SetToSeq(P) IN [i \in 1..Len(q) |-> ProcNamed(q[i])]

\* What one psutil.process_iter can yield while the processes P run.
Enumerations(P) ==
    { NamedProcs(P),
      <<ProcDenied, ProcVanished, ProcNoName>> \o NamedProcs(P),
      <<IterFails>> \o NamedProcs(P),
      NamedProcs(P) \o <<IterFails>> }

(***************************************************************************)
(* Sequencer threads.  A thread runs _threaded_launch(names) or            *)
(* _threaded_launch_items(items, logical_name); pc is the statement it     *)
(* executes next.  launched, calls, msgs and alone are history: the        *)
(* positions launch_item was called for, the OS calls it made, the         *)
(* messages it returned, and whether no other thread was active at any     *)
(* time of this one.                                                       *)
(***************************************************************************)
Active(r) == r.pc \notin {"done", "failed"}

NewRun(kind, names, items, timer) ==
    [kind |-> kind, names |-> names, items |-> items, timer |-> timer,
     pc |-> "start", pi |-> 1, ii |-> 1, tmp |-> 0, msg |-> "",
     launched |-> <<>>, calls |-> <<>>, msgs |-> <<>>,
     alone |-> \A k \in 1..Len(runs) : ~Active(runs[k])]

\* threading.Thread(...).start(): the threads already active are no longer alone.
StartThread(run) ==
    runs' = [k \in 1..Len(runs) |->
                IF Active(runs[k]) THEN [runs[k] EXCEPT !.alone = FALSE]
                ELSE runs[k]] \o <<run>>

\* The items of the i-th group of run r.
GroupItems(r, i) ==
    IF r.kind = "items" THEN r.items ELSE ProfileGet(r.names[i])

RECURSIVE SumLens(_, _)
SumLens(r, i) ==
    IF i > Len(r.names) THEN 0 ELSE Len(GroupItems(r, i)) + SumLens(r, i + 1)

\* total = sum(len(...)) or 1
\* Mutant: the "or 1" is missing.
TotalNoFloor(r) == SumLens(r, 1)

Total(r) == IF SumLens(r, 1) = 0 THEN 1 ELSE SumLens(r, 1)

StatusLine(r, text) == [run |-> r, text |-> text]
Dialog(r, kind, title) == [run |-> r, kind |-> kind, title |-> title]

\* self._append_status(text)
AppendStatus(r, text) == status' = Append(status, StatusLine(r, text))

\* log_line(text): one more line, "<timestamp> - <text>".  A line of logfile
\* is the text after the timestamp and its " - ", with the thread that wrote it.
LogLine(r, text) == [run |-> r, text |-> text]
AppendLog(r, text) == logfile' = Append(logfile, LogLine(r, text))

SetRun(r, rec) == runs' = [runs EXCEPT ![r] = rec]

\* Mutant: a run leaves the progress value alone while another run is active.
RunStartKeepsOthers(r) ==
    /\ alive /\ runs[r].pc = "start"
    /\ progress' = IF \E q \in 1..Len(runs) : q # r /\ Active(runs[q])
                   THEN progress
                   ELSE [progress EXCEPT !.value = 0]
    /\ SetRun(r, [runs[r] EXCEPT !.pc = "setmax"])
    /\ UNCHANGED <<cfg, selected, preview, status, logfile, timers, dialogs,
                   procs, alive, budget, call>>

\* lines 426-427 / 446-447: total = ...; self.progress["value"] = 0
RunStart(r) ==
    /\ alive /\ runs[r].pc = "start"
    /\ progress' = [progress EXCEPT !.value = 0]
    /\ SetRun(r, [runs[r] EXCEPT !.pc = "setmax"])
    /\ UNCHANGED <<cfg, selected, preview, status, logfile, timers, dialogs,
                   procs, alive, budget, call>>

\* lines 428 / 448: self.progress["maximum"] = total
RunSetMax(r) ==
    /\ alive /\ runs[r].pc = "setmax"
    /\ progress' = [progress EXCEPT !.maximum = Total(runs[r])]
    /\ SetRun(r, [runs[r] EXCEPT !.pc = "group"])
    /\ UNCHANGED <<cfg, selected, preview, status, logfile, timers, dialogs,
                   procs, alive, budget, call>>

\* lines 430-432 / 449, and 440 / 457 when the names are exhausted.
RunGroup(r) ==
    /\ alive /\ runs[r].pc = "group"
    /\ IF runs[r].pi > Len(runs[r].names)
       THEN /\ AppendStatus(r, "Done.")
            /\ SetRun(r, [runs[r] EXCEPT !.pc = "done"])
       ELSE /\ AppendStatus(r, "Launching: " \o runs[r].names[runs[r].pi])
            /\ SetRun(r, [runs[r] EXCEPT !.pc = "log"])
    /\ UNCHANGED <<cfg, selected, preview, progress, logfile, timers, dialogs,
                   procs, alive, budget, call>>

\* Mutant: a profile without items is not logged.
RunLogSkipsEmpty(r) ==
    /\ alive /\ runs[r].pc = "log"
    /\ IF GroupItems(runs[r], runs[r].pi) = <<>>
       THEN /\ UNCHANGED logfile
            /\ SetRun(r, [runs[r] EXCEPT !.pc = "group", !.pi = @ + 1])
       ELSE /\ AppendLog(r, "Launching profile: " \o runs[r].names[runs[r].pi])
            /\ SetRun(r, [runs[r] EXCEPT !.pc = "item", !.ii = 1])
    /\ UNCHANGED <<cfg, selected, preview, progress, status, timers, dialogs,
                   procs, alive, budget, call>>

\* lines 433 / 450: log_line(f"Launching profile: {name}"), then the for.
RunLog(r) ==
    /\ alive /\ runs[r].pc = "log"
    /\ AppendLog(r, "Launching profile: " \o runs[r].names[runs[r].pi])
    /\ IF GroupItems(runs[r], runs[r].pi) = <<>>
       THEN SetRun(r, [runs[r] EXCEPT !.pc = "group", !.pi = @ + 1])
       ELSE SetRun(r, [runs[r] EXCEPT !.pc = "item", !.ii = 1])
    /\ UNCHANGED <<cfg, selected, preview, progress, status, timers, dialogs,
                   procs, alive, budget, call>>

\* Mutant: an exception of launch_item is swallowed and the loop goes on.
RunItemContinuesAfterError(r) ==
    /\ alive /\ runs[r].pc = "item"
    /\ \E enum \in Enumerations(procs) :
         LET item == GroupItems(runs[r], runs[r].pi)[runs[r].ii]
             res  == launch_item(item, AvoidDupes, HostPlatform, enum,
                                 Popen(ItemTarget(item)))
             rec  == [runs[r] EXCEPT
                        !.launched = Append(@, <<runs[r].pi, runs[r].ii>>),
                        !.calls = @ \o res.calls]
         IN  /\ IF res.raised
                THEN SetRun(r, [rec EXCEPT !.pc = "status", !.msg = ""])
                ELSE SetRun(r, [rec EXCEPT !.pc = "status", !.msg = res.msg,
                                           !.msgs = Append(@, res.msg)])
             /\ procs' = IF ~res.raised /\ Popen(ItemTarget(item)) = "ok"
                            /\ \E i \in 1..Len(res.calls) : res.calls[i].op = "spawn"
                         THEN procs \cup {Basename(ItemTarget(item), HostPlatform)}
                         ELSE procs
    /\ UNCHANGED <<cfg, selected, preview, progress, status, logfile, timers,
                   dialogs, alive, budget, call>>

\* lines 435 / 452: msg = launch_item(item, avoid_duplicates=self.avoid_dupes);
\* an exception leaves the loops for the except of lines 441-442 / 458-459.
RunItem(r) ==
    /\ alive /\ runs[r].pc = "item"
    /\ \E enum \in Enumerations(procs) :
         LET item == GroupItems(runs[r], runs[r].pi)[runs[r].ii]
             res  == launch_item(item, AvoidDupes, HostPlatform, enum,
                                 Popen(ItemTarget(item)))
             rec  == [runs[r] EXCEPT
                        !.launched = Append(@, <<runs[r].pi, runs[r].ii>>),
                        !.calls = @ \o res.calls]
             spawned == \E i \in 1..Len(res.calls) : res.calls[i].op = "spawn"
         IN  /\ IF res.raised
                THEN /\ SetRun(r, [rec EXCEPT !.pc = "failed"])
                     /\ dialogs' = Append(dialogs, Dialog(r, "error", "Launch Error"))
                ELSE /\ SetRun(r, [rec EXCEPT !.pc = "status", !.msg = res.msg,
                                                !.msgs = Append(@, res.msg)])
                     /\ UNCHANGED dialogs
             /\ procs' = IF spawned /\ ~res.raised /\ Popen(ItemTarget(item)) = "ok"
                         THEN procs \cup {Basename(ItemTarget(item), HostPlatform)}
                         ELSE procs
    /\ UNCHANGED <<cfg, selected, preview, progress, status, logfile, timers,
                   alive, budget, call>>

\* Mutant: the outcome is also written to the log file, as "<name> - <msg>".
RunStatusLogsOutcome(r) ==
    /\ alive /\ runs[r].pc = "status"
    /\ AppendStatus(r, "  - " \o runs[r].msg)
    /\ AppendLog(r, runs[r].names[runs[r].pi] \o " - " \o runs[r].msg)
    /\ SetRun(r, [runs[r] EXCEPT !.pc = "read"])
    /\ UNCHANGED <<cfg, selected, preview, progress, timers, dialogs,
                   procs, alive, budget, call>>

\* lines 436 / 453: self._append_status(f"  - {msg}")
RunStatus(r) ==
    /\ alive /\ runs[r].pc = "status"
    /\ AppendStatus(r, "  - " \o runs[r].msg)
    /\ SetRun(r, [runs[r] EXCEPT !.pc = "read"])
    /\ UNCHANGED <<cfg, selected, preview, progress, logfile, timers, dialogs,
                   procs, alive, budget, call>>

\* lines 437 / 454, first half: the read of self.progress["value"] += 1
RunRead(r) ==
    /\ alive /\ runs[r].pc = "read"
    /\ SetRun(r, [runs[r] EXCEPT !.pc = "write", !.tmp = progress.value])
    /\ UNCHANGED <<cfg, selected, preview, progress, status, logfile, timers,
                   dialogs, procs, alive, budget, call>>

\* Mutant: the loop steps over the item after the one just launched.
RunWriteSkipsItem(r) ==
    /\ alive /\ runs[r].pc = "write"
    /\ progress' = [progress EXCEPT !.value = runs[r].tmp + 1]
    /\ IF runs[r].ii + 1 < Len(GroupItems(runs[r], runs[r].pi))
       THEN SetRun(r, [runs[r] EXCEPT !.pc = "item", !.ii = @ + 2])
       ELSE SetRun(r, [runs[r] EXCEPT !.pc = "group", !.pi = @ + 1])
    /\ UNCHANGED <<cfg, selected, preview, status, logfile, timers, dialogs,
                   procs, alive, budget, call>>

\* lines 437-439 / 454-456: the write of the +=, update_idletasks, the
\* stagger sleep (which changes no state), and on to the next item or name.
RunWrite(r) ==
    /\ alive /\ runs[r].pc = "write"
    /\ progress' = [progress EXCEPT !.value = runs[r].tmp + 1]
    /\ IF runs[r].ii < Len(GroupItems(runs[r], runs[r].pi))
       THEN SetRun(r, [runs[r] EXCEPT !.pc = "item", !.ii = @ + 1])
       ELSE SetRun(r, [runs[r] EXCEPT !.pc = "group", !.pi = @ + 1])
    /\ UNCHANGED <<cfg, selected, preview, status, logfile, timers, dialogs,
                   procs, alive, budget, call>>

RunStep(r) ==
    \/ RunStart(r) \/ RunSetMax(r) \/ RunGroup(r) \/ RunLog(r)
    \/ RunItem(r) \/ RunStatus(r) \/ RunRead(r) \/ RunWrite(r)

(***************************************************************************)
(* The user's operations (the UI thread).                                  *)
(***************************************************************************)
UserOp == alive /\ budget > 0 /\ budget' = budget - 1

\* <<ComboboxSelected>>: the textvariable, then _refresh_preview (402-420).
SelectProfile(name) ==
    /\ UserOp
    /\ selected' = name
    /\ preview' = ProfileGet(name)
    /\ UNCHANGED <<cfg, progress, status, logfile, runs, timers, dialogs,
                   procs, alive, call>>

\* launch_selected (461-466)
LaunchSelected ==
    /\ UserOp
    /\ IF selected = ""
       THEN /\ dialogs' = Append(dialogs, Dialog(0, "warning", "No Profile Selected"))
            /\ UNCHANGED runs
       ELSE /\ StartThread(NewRun("profiles", <<selected>>, <<>>, 0))
            /\ UNCHANGED dialogs
    /\ UNCHANGED <<cfg, selected, preview, progress, status, logfile, timers,
                   procs, alive, call>>

\* launch_all (468-472)
LaunchAll ==
    /\ UserOp
    /\ IF ProfileNames = <<>>
       THEN /\ dialogs' = Append(dialogs, Dialog(0, "info", "No Profiles"))
            /\ UNCHANGED runs
       ELSE /\ StartThread(NewRun("profiles", ProfileNames, <<>>, 0))
            /\ UNCHANGED dialogs
    /\ UNCHANGED <<cfg, selected, preview, progress, status, logfile, timers,
                   procs, alive, call>>

\* The rows of the preview with their index in sel, in table order.
RECURSIVE PickRows(_, _)
PickRows(sel, i) ==
    IF i > Len(preview) THEN <<>>
    ELSE (IF i \in sel THEN <<preview[i]>> ELSE <<>>) \o PickRows(sel, i + 1)

\* launch_chosen (474-484); sel is self.tree.selection().
LaunchChosen(sel) ==
    /\ UserOp
    /\ IF sel = {}
       THEN /\ dialogs' = Append(dialogs, Dialog(0, "info", "No Selection"))
            /\ UNCHANGED runs
       ELSE /\ StartThread(NewRun("items", <<"Selected Items">>,
                                  PickRows(sel, 1), 0))
            /\ UNCHANGED dialogs
    /\ UNCHANGED <<cfg, selected, preview, progress, status, logfile, timers,
                   procs, alive, call>>

(***************************************************************************)
(* schedule_selected (512-547).                                            *)
(***************************************************************************)
Pad2(n) == IF n < 10 THEN "0" \o ToString(n) ELSE ToString(n)

\* (now + timedelta(seconds=delay)).strftime("%Y-%m-%d %H:%M"), the date
\* as the number of days after today.
WhenStr(now_secs, delay) ==
    LET at == now_secs + delay IN
    "day+" \o ToString(at \div DaySeconds) \o " "
        \o Pad2((at % DaySeconds) \div 3600) \o ":"
        \o Pad2(((at % DaySeconds) % 3600) \div 60)

NewTimer(name, delay) == [name |-> name, delay |-> delay, state |-> "pending"]

\* Mutant: a pending timer of the same profile is re-armed, not joined.
ScheduleReplacesPending(name, timestr, now) ==
    IF timestr = <<>>
    THEN UNCHANGED <<status, logfile, timers, dialogs>>
    ELSE LET target == ParseTimeToSeconds(timestr) IN
         IF target.none
         THEN /\ dialogs' = Append(dialogs, Dialog(0, "error", "Invalid Time"))
              /\ UNCHANGED <<status, logfile, timers>>
         ELSE LET now_secs == NowSecs(now)
                  delay    == ScheduleDelay(target.secs, now_secs)
                  when_str == WhenStr(now_secs, delay)
                  old      == {t \in 1..Len(timers) :
                                 timers[t].name = name /\ timers[t].state = "pending"}
              IN  /\ status' = Append(status, StatusLine(0,
                         "Scheduled '" \o name \o "' for " \o when_str
                         \o " (in " \o ToString(delay \div 60) \o " min)."))
                  /\ AppendLog(0, "Scheduled '" \o name \o "' for " \o when_str)
                  /\ timers' = IF old = {} THEN Append(timers, NewTimer(name, delay))
                                ELSE [t \in 1..Len(timers) |->
                                        IF t \in old THEN NewTimer(name, delay)
                                        ELSE timers[t]]
                  /\ UNCHANGED dialogs

\* Mutant: the timer is armed before the time string is checked.
ArmsTimerAlways(name, timestr, now) ==
    LET target   == ParseTimeToSeconds(timestr)
        now_secs == NowSecs(now)
        delay    == ScheduleDelay(target.secs, now_secs)
        when_str == WhenStr(now_secs, delay)
    IN  /\ status' = Append(status, StatusLine(0,
               "Scheduled '" \o name \o "' for " \o when_str \o " (in "
               \o ToString(delay \div 60) \o " min)."))
        /\ AppendLog(0, "Scheduled '" \o name \o "' for " \o when_str)
        /\ timers' = Append(timers, NewTimer(name, delay))
        /\ UNCHANGED dialogs

\* Lines 518-547, once a profile is selected.  timestr is dlg.result: the
\* text the dialog returns, <<>> when it was cancelled (None).
ScheduleName(name, timestr, now) ==
    IF timestr = <<>>
    THEN UNCHANGED <<status, logfile, timers, dialogs>>      \* user cancelled
    ELSE LET target == ParseTimeToSeconds(timestr) IN
         IF target.none
         THEN /\ dialogs' = Append(dialogs, Dialog(0, "error", "Invalid Time"))
              /\ UNCHANGED <<status, logfile, timers>>
         ELSE LET now_secs == NowSecs(now)
                  delay    == ScheduleDelay(target.secs, now_secs)
                  when_str == WhenStr(now_secs, delay)
              IN  /\ status' = Append(status, StatusLine(0,
                         "Scheduled '" \o name \o "' for " \o when_str
                         \o " (in " \o ToString(delay \div 60) \o " min)."))
                  /\ AppendLog(0, "Scheduled '" \o name \o "' for " \o when_str)
                  /\ timers' = Append(timers, NewTimer(name, delay))
                  /\ UNCHANGED dialogs

ScheduleSelected(timestr, now) ==
    /\ UserOp
    /\ IF selected = ""
       THEN /\ dialogs' = Append(dialogs, Dialog(0, "warning", "No Profile Selected"))
            /\ UNCHANGED <<status, logfile, timers>>
       ELSE ScheduleName(selected, timestr, now)
    /\ UNCHANGED <<cfg, selected, preview, progress, runs, procs, alive, call>>

\* _fire (537-543): the timer's thread appends its status line and runs
\* _threaded_launch([name]) itself.
TimerFire(t) ==
    /\ alive
    /\ t \in 1..Len(timers) /\ timers[t].state = "pending"
    /\ timers' = [timers EXCEPT ![t].state = "fired"]
    /\ status' = Append(status, StatusLine(Len(runs) + 1,
                        "Launching (scheduled): " \o timers[t].name))
    /\ StartThread(NewRun("profiles", <<timers[t].name>>, <<>>, t))
    /\ UNCHANGED <<cfg, selected, preview, progress, logfile, dialogs, procs,
                   alive, budget, call>>

\* File > Exit (248): the main loop ends and the daemon threads with it.
Exit ==
    /\ alive
    /\ alive' = FALSE
    /\ UNCHANGED <<cfg, selected, preview, progress, status, logfile, runs,
                   timers, dialogs, procs, budget, call>>

\* The host: a running process ends.
ProcExit ==
    /\ alive
    /\ \E p \in procs : procs' = procs \ {p}
    /\ UNCHANGED <<cfg, selected, preview, progress, status, logfile, runs,
                   timers, dialogs, alive, budget, call>>

(***************************************************************************)
(* Initial states: the application after __init__ (201-237), with the      *)
(* first profile selected, "Ready." in the status area and the preview     *)
(* filled, on a host where the processes P run.                            *)
(***************************************************************************)
ItemMail   == [type |-> "url", label |-> "Mail", target |-> UrlMail]
ItemEditor == [type |-> "app", label |-> "Editor", target |-> PathEditor]
ItemSync   == [type |-> "app", label |-> "Sync", target |-> PathSync]
ItemScript == [type |-> "script", label |-> "Backup", target |-> PathSync]
ItemVault  == [type |-> "app", target |-> PathVault]

DefaultLaunch == [stagger_ms |-> 250]
KeepDupes     == [stagger_ms |-> 0, avoid_duplicates |-> FALSE]

EmptyConfig == [profiles |-> <<>>, launch |-> DefaultLaunch]

\* Two profiles of one item each.
DuoConfig ==
    [profiles |-> << [name |-> "Morning", items |-> <<ItemEditor>>],
                     [name |-> "Evening", items |-> <<ItemMail>>] >>,
     launch |-> DefaultLaunch]

\* Three profiles: every kind of item, and a profile without items.
FullProfiles ==
    << [name |-> "Morning", items |-> <<ItemMail, ItemEditor, ItemSync>>],
       [name |-> "Evening", items |-> <<ItemScript, ItemVault>>],
       [name |-> "Later", items |-> <<>>] >>

FullConfigs ==
    { [profiles |-> FullProfiles, launch |-> DefaultLaunch],
      [profiles |-> FullProfiles, launch |-> KeepDupes] }

ProgressDefaultMax == 100       \* ttk.Progressbar's maximum until it is set

ProcEd    == <<"E","D",".","e","x","e">>
ProcVault == <<"V",".","e","x","e">>

NoCall == [fn |-> "none"]

InitApp(configs, hosts, ops) ==
    /\ cfg \in configs
    /\ selected = FirstProfile
    /\ preview = ProfileGet(FirstProfile)
    /\ progress = [value |-> 0, maximum |-> ProgressDefaultMax]
    /\ status = <<StatusLine(0, "Ready.")>>
    /\ logfile = <<>>
    /\ runs = <<>>
    /\ timers = <<>>
    /\ dialogs = <<>>
    /\ procs \in hosts
    /\ alive = TRUE
    /\ budget = ops

SelectAny ==
    \E name \in {ProfileNames[i] : i \in 1..Len(ProfileNames)} :
        SelectProfile(name)

LaunchChosenAny == \E sel \in SUBSET (1..Len(preview)) : LaunchChosen(sel)

TimerFireAny == \E t \in 1..Len(timers) : TimerFire(t)

T_0830   == <<"0","8",":","3","0">>
T_830am  == <<"8",":","3","0","a","m">>
T_830PM  == <<"8",":","3","0","P","M">>
T_2030   == <<"2","0",":","3","0">>
T_870am  == <<"8",":","7","0","a","m">>
T_abc    == <<"a","b","c">>
T_1s230  == <<"1"," ","2",":","3","0">>
T_0010   == <<"0","0",":","1","0">>
T_600pm  == <<"6",":","0","0","p","m">>
T0830pm == <<"8",":","3","0","p","m">>
T1000   == <<"1","0",":","0","0">>
T2500   == <<"2","5",":","0","0">>

Clock(h, m, s) == [hour |-> h, minute |-> m, second |-> s]

(***************************************************************************)
(* Spec: the application with threads that overlap.                        *)
(***************************************************************************)
Init ==
    /\ InitApp({DuoConfig, EmptyConfig}, {{}}, MaxOps)
    /\ call = NoCall

Next ==
    \/ SelectAny
    \/ LaunchSelected
    \/ LaunchAll
    \/ LaunchChosenAny
    \/ \E timestr \in {<<>>, T0830pm, T2500} :
           ScheduleSelected(timestr, Clock(23, 50, 30))
    \/ TimerFireAny
    \/ \E r \in 1..Len(runs) : RunStart(r)
    \/ \E r \in 1..Len(runs) : RunSetMax(r)
    \/ \E r \in 1..Len(runs) : RunGroup(r)
    \/ \E r \in 1..Len(runs) : RunLog(r)
    \/ \E r \in 1..Len(runs) : RunItem(r)
    \/ \E r \in 1..Len(runs) : RunStatus(r)
    \/ \E r \in 1..Len(runs) : RunRead(r)
    \/ \E r \in 1..Len(runs) : RunWrite(r)
    \/ ProcExit

Spec == Init /\ [][Next]_vars

(***************************************************************************)
(* SpecPair: manual launches that overlap, with threads that run once      *)
(* started: the scheduler gives each the processor and its time.sleep      *)
(* returns.  A thread's step is enabled exactly while the thread is        *)
(* active, so the condition is weak fairness of RunStep(r), written out.   *)
(***************************************************************************)
InitPair ==
    /\ InitApp({DuoConfig}, {{}}, PairOps)
    /\ call = NoCall

NextPair ==
    \/ SelectAny
    \/ LaunchSelected
    \/ LaunchAll
    \/ \E r \in 1..Len(runs) : RunStart(r)
    \/ \E r \in 1..Len(runs) : RunSetMax(r)
    \/ \E r \in 1..Len(runs) : RunGroup(r)
    \/ \E r \in 1..Len(runs) : RunLog(r)
    \/ \E r \in 1..Len(runs) : RunItem(r)
    \/ \E r \in 1..Len(runs) : RunStatus(r)
    \/ \E r \in 1..Len(runs) : RunRead(r)
    \/ \E r \in 1..Len(runs) : RunWrite(r)

SpecPair ==
    /\ InitPair /\ [][NextPair]_vars
    /\ \A r \in 1..PairOps :
          \/ []<>(~(r \in DOMAIN runs /\ Active(runs[r])))
          \/ []<><<r \in DOMAIN runs /\ RunStep(r)>>_vars

(***************************************************************************)
(* SpecSolo: every kind of item and profile, with a user who starts the    *)
(* next launch only when no sequencer thread is active.                    *)
(***************************************************************************)
Idle == \A k \in 1..Len(runs) : ~Active(runs[k])

InitSolo ==
    /\ InitApp(FullConfigs \cup {EmptyConfig}, SUBSET {ProcEd, ProcVault}, SoloOps)
    /\ call = NoCall

NextSolo ==
    \/ SelectAny
    \/ Idle /\ LaunchSelected
    \/ Idle /\ LaunchAll
    \/ Idle /\ LaunchChosenAny
    \/ \E timestr \in {<<>>, T0830pm, T2500} :
           ScheduleSelected(timestr, Clock(23, 50, 30))
    \/ Idle /\ TimerFireAny
    \/ \E r \in 1..Len(runs) : RunStart(r)
    \/ \E r \in 1..Len(runs) : RunSetMax(r)
    \/ \E r \in 1..Len(runs) : RunGroup(r)
    \/ \E r \in 1..Len(runs) : RunLog(r)
    \/ \E r \in 1..Len(runs) : RunItem(r)
    \/ \E r \in 1..Len(runs) : RunStatus(r)
    \/ \E r \in 1..Len(runs) : RunRead(r)
    \/ \E r \in 1..Len(runs) : RunWrite(r)
    \/ ProcExit
    \/ Exit

SpecSolo == InitSolo /\ [][NextSolo]_vars

(***************************************************************************)
(* SpecSched: scheduling.  A timer that is armed expires: while the        *)
(* application runs, its thread is started.                                *)
(***************************************************************************)
InitSched ==
    /\ InitApp({DuoConfig, EmptyConfig}, {{}}, SchedOps)
    /\ call = NoCall

\* What the schedule dialog returns, and the wall clock at that moment.
SchedTexts == {<<>>, T0830pm, T1000, T2500}

SchedClocks == {Clock(10, 0, 0), Clock(23, 50, 30)}

NextSched ==
    \/ SelectAny
    \/ \E timestr \in SchedTexts : \E now \in SchedClocks :
           ScheduleSelected(timestr, now)
    \/ TimerFireAny
    \/ \E r \in 1..Len(runs) : RunStart(r)
    \/ \E r \in 1..Len(runs) : RunSetMax(r)
    \/ \E r \in 1..Len(runs) : RunGroup(r)
    \/ \E r \in 1..Len(runs) : RunLog(r)
    \/ \E r \in 1..Len(runs) : RunItem(r)
    \/ \E r \in 1..Len(runs) : RunStatus(r)
    \/ \E r \in 1..Len(runs) : RunRead(r)
    \/ \E r \in 1..Len(runs) : RunWrite(r)
    \/ Exit

SpecSched ==
    /\ InitSched /\ [][NextSched]_vars
    /\ \A t \in 1..(SchedOps + 1) : WF_vars(TimerFire(t))

(***************************************************************************)
(* Single calls of the pure functions: the inputs are drawn in the initial *)
(* state, and one step applies the function.                               *)
(***************************************************************************)
InitIdleApp == InitApp({EmptyConfig}, {{}}, 0)

\* --- _parse_time_to_seconds(timestr) ---
HourTexts ==
    { <<>>, <<"0">>, <<"8">>, <<"0","8">>, <<"1","2">>, <<"1","3">>,
      <<"2","0">>, <<"2","3">>, <<"2","4">>, <<"2","5">>, <<"-","1">>,
      <<"1"," ","2">>, <<"1","_","2">>, <<"b">> }
MinuteTexts ==
    { <<"0","0">>, <<"3","0">>, <<"5","9">>, <<"6","0">>, <<"7","0">>,
      <<"5">>, <<>>, <<"-","0">>, <<"3"," ","0">>, <<"3","0",":","0","0">> }
SuffixTexts ==
    { <<>>, <<"a","m">>, <<"p","m">>, <<"P","M">>, <<"A","m">>,
      <<" ","p","m">>, <<"p"," ","m">>, <<"m">>, <<"p","m"," ">> }
ColonTexts ==
    { <<":">>, <<>>, <<" ",":"," ">>, <<":",":">> }
OtherTexts ==
    { <<"a","b","c">>, <<>>, <<"a","m">>, <<"p","m">>, <<":">>,
      <<"8","\t",":","3","0">>, <<"+","8",":","+","5">>,
      <<"1","2",":","0","0","a","m">>, <<"1","2",":","3","0","p","m">>,
      <<"1","1",":","5","9","p","m">>, <<"0",":","0","0">> }

TimeTexts ==
    { pre \o h \o c \o m \o x :
        pre \in {<<>>, <<" ">>}, h \in HourTexts, c \in ColonTexts,
        m \in MinuteTexts, x \in SuffixTexts } \cup OtherTexts

InitParse ==
    /\ InitIdleApp
    /\ call \in {[fn |-> "parse", timestr |-> t, done |-> FALSE, result |-> NoTime] :
                   t \in TimeTexts}

ApplyParse ==
    /\ call.fn = "parse" /\ ~call.done
    /\ call' = [call EXCEPT !.done = TRUE,
                            !.result = ParseTimeToSeconds(call.timestr)]
    /\ UNCHANGED appVars

SpecParse == InitParse /\ [][ApplyParse]_vars

\* --- lines 523-530 of schedule_selected: the target and the delay ---
DelayTexts ==
    { <<"0","0",":","1","0">>, <<"1","0",":","0","0">>,
      <<"8",":","0","0","a","m">>, <<"6",":","0","0","p","m">>,
      <<"1","8",":","0","0">>, <<"0",":","0","0">>,
      <<"1","2",":","0","0","a","m">>, <<"1","2",":","0","0","p","m">>,
      <<"1","1",":","5","9","p","m">>, <<"2","3",":","5","9">>,
      <<"1","2",":","3","0">>, <<"7",":","0","5">>,
      <<"2","5",":","0","0">>, <<"a","b","c">> }

DelayClocks ==
    { Clock(h, m, sec) : h \in 0..23, m \in {0, 1, 10, 29, 30, 50, 59},
                         sec \in {0, 1, 30, 59} }

InitDelay ==
    /\ InitIdleApp
    /\ call \in {[fn |-> "delay", timestr |-> t, now |-> n, done |-> FALSE,
                  target |-> NoTime, delay |-> 0] :
                   t \in DelayTexts, n \in DelayClocks}

ApplyDelay ==
    /\ call.fn = "delay" /\ ~call.done
    /\ LET target == ParseTimeToSeconds(call.timestr) IN
       call' = [call EXCEPT
                  !.done = TRUE,
                  !.target = target,
                  !.delay = IF target.none THEN 0
                            ELSE ScheduleDelay(target.secs, NowSecs(call.now))]
    /\ UNCHANGED appVars

SpecDelay == InitDelay /\ [][ApplyDelay]_vars

\* --- launch_item(item, avoid_duplicates) on some host ---
PathPosix == <<"/","o","\\","E","d",".","e","x","e">>
ProcSync  == <<"s","y","n","c">>

\* A JSON object with the keys whose set of values is not empty.
MkItem(T, L, G) ==
    [k \in (IF T = {} THEN {} ELSE {"type"}) \cup
           (IF L = {} THEN {} ELSE {"label"}) \cup
           (IF G = {} THEN {} ELSE {"target"}) |->
        IF k = "type" THEN CHOOSE x \in T : TRUE
        ELSE IF k = "label" THEN CHOOSE x \in L : TRUE
        ELSE CHOOSE x \in G : TRUE]

ItemUniverse ==
    { MkItem(T, L, G) :
        T \in {{}, {"url"}, {"app"}, {"URL"}, {"script"}},
        L \in {{}, {"Tool"}},
        G \in {{}, {UrlMail}, {PathEditor}, {PathSync}, {PathVault}, {PathPosix}} }

HostUniverse ==
    UNION { Enumerations(P) : P \in SUBSET {ProcEd, ProcVault, ProcSync} }

InitItem ==
    /\ InitIdleApp
    /\ call \in {[fn |-> "launch_item", item |-> it, avoid_duplicates |-> av,
                  platform |-> pf, enum |-> en, popen |-> po, done |-> FALSE,
                  result |-> Returned("", <<>>)] :
                   it \in ItemUniverse, av \in BOOLEAN, pf \in {"nt", "posix"},
                   en \in HostUniverse, po \in PopenOutcomes}

ApplyItem ==
    /\ call.fn = "launch_item" /\ ~call.done
    /\ call' = [call EXCEPT
                  !.done = TRUE,
                  !.result = launch_item(call.item, call.avoid_duplicates,
                                         call.platform, call.enum, call.popen)]
    /\ UNCHANGED appVars

SpecItem == InitItem /\ [][ApplyItem]_vars

(***************************************************************************)
(* usage_summary (549-588) on the log file that log_line (78-81) writes.   *)
(* A line of the file is a sequence of characters.                         *)
(***************************************************************************)
Marker == <<"L","a","u","n","c","h","i","n","g"," ","p","r","o","f","i","l","e",":">>

Dash == <<" ", "-", " ">>

\* str.find + 1: where sub first occurs in s, 0 when it does not.
Find(s, sub) ==
    LET at == {i \in 1..(Len(s) - Len(sub) + 1) :
                   SubSeq(s, i, i + Len(sub) - 1) = sub}
    IN  IF at = {} THEN 0 ELSE CHOOSE i \in at : \A j \in at : i <= j

\* sub in s
Contains(s, sub) == Find(s, sub) # 0

\* s.split(sep, 1)
SplitOnce(s, sep) ==
    LET i == Find(s, sep)
    IN  IF i = 0 THEN <<s>>
        ELSE <<SubSeq(s, 1, i - 1), SubSeq(s, i + Len(sep), Len(s))>>

\* f"{ts} - {text}\n", without the newline
FileLine(ts, text) == ts \o Dash \o text

\* Mutant: the profile name is not stripped.
UsageNameUntrimmed(rest) == SplitOnce(rest, Marker)[2]

\* line 564: rest.split("Launching profile:", 1)[1].strip()
UsageName(rest) == Strip(SplitOnce(rest, Marker)[2])

\* by_profile (its keys in insertion order, and the counts) and last_used
NoUsage == [names |-> <<>>, count |-> <<>>, last |-> <<>>]

\* lines 559-568: the loop over the lines of the file, from line i on.
RECURSIVE UsageScan(_, _, _)
UsageScan(lines, i, acc) ==
    IF i > Len(lines) THEN acc
    ELSE LET line == Strip(lines[i]) IN
         IF Contains(line, Marker) /\ Contains(line, Dash)
         THEN LET ts   == SplitOnce(line, Dash)[1]
                  rest == SplitOnce(line, Dash)[2]
              IN  IF ~Contains(rest, Marker)
                  THEN UsageScan(lines, i + 1, acc)          \* IndexError
                  ELSE LET prof == UsageName(rest)
                           k    == CHOOSE j \in 0..Len(acc.names) :
                                       IF \E x \in 1..Len(acc.names) : acc.names[x] = prof
                                       THEN j > 0 /\ acc.names[j] = prof
                                       ELSE j = 0
                       IN  IF k = 0
                           THEN UsageScan(lines, i + 1,
                                    [names |-> Append(acc.names, prof),
                                     count |-> Append(acc.count, 1),
                                     last  |-> Append(acc.last, ts)])
                           ELSE UsageScan(lines, i + 1,
                                    [acc EXCEPT !.count[k] = @ + 1,
                                                !.last[k] = ts])
         ELSE UsageScan(lines, i + 1, acc)

RECURSIVE SumSeq(_)
SumSeq(q) == IF q = <<>> THEN 0 ELSE Head(q) + SumSeq(Tail(q))

\* max(by_profile.items(), key=lambda kv: kv[1])[0]: the first of the largest
MostUsed(acc) ==
    acc.names[CHOOSE k \in 1..Len(acc.names) :
                 /\ \A j \in 1..Len(acc.names) : acc.count[j] <= acc.count[k]
                 /\ \A j \in 1..(k - 1) : acc.count[j] < acc.count[k]]

\* usage_summary: the dialog it shows, and the figures of the summary.
usage_summary(exists, lines) ==
    IF ~exists THEN [shown |-> "No log entries yet.", by |-> NoUsage]
    ELSE LET acc == UsageScan(lines, 1, NoUsage) IN
         IF acc.names = <<>>
         THEN [shown |-> "No profile launches recorded yet.", by |-> acc]
         ELSE [shown |-> "Usage Summary", by |-> acc,
               total_launches |-> SumSeq(acc.count),
               most_used |-> MostUsed(acc)]

\* datetime.now().strftime("%Y-%m-%d %H:%M:%S") at the i-th write
StampAt(i) == <<"2","0","2","6","-","0","1","-","0">> \o <<ToString(i)>>
              \o <<" ","0","8",":","0","0",":","0","0">>

\* What log_line is called with: the launch of a profile (433, 450), of a
\* profile whose name has a " - " or spaces around it, and a schedule (534).
TextMorning   == <<"L","a","u","n","c","h","i","n","g"," ","p","r","o","f","i","l","e",":"," ","M","o","r","n","i","n","g">>
TextEvening   == <<"L","a","u","n","c","h","i","n","g"," ","p","r","o","f","i","l","e",":"," ","E","v","e","n","i","n","g">>
TextSelected  == <<"L","a","u","n","c","h","i","n","g"," ","p","r","o","f","i","l","e",":"," ","S","e","l","e","c","t","e","d"," ","I","t","e","m","s">>
TextDashed    == <<"L","a","u","n","c","h","i","n","g"," ","p","r","o","f","i","l","e",":"," ","A"," ","-"," ","B">>
TextPadded    == <<"L","a","u","n","c","h","i","n","g"," ","p","r","o","f","i","l","e",":"," "," ","M","o","r","n","i","n","g"," ">>
TextScheduled == <<"S","c","h","e","d","u","l","e","d"," ","'","M","o","r","n","i","n","g","'"," ","f","o","r"," ","2","0","2","6","-","0","1","-","0","2"," ","0","8",":","5","5">>

LogTexts ==
    {TextMorning, TextEvening, TextSelected, TextDashed, TextPadded, TextScheduled}

LogFiles ==
    UNION { {[i \in 1..n |-> FileLine(StampAt(i), t[i])] : t \in [1..n -> LogTexts]} :
            n \in 0..MaxLog }

InitUsage ==
    /\ InitIdleApp
    /\ call \in {[fn |-> "usage", exists |-> TRUE, lines |-> f, done |-> FALSE,
                  result |-> [shown |-> "", by |-> NoUsage]] : f \in LogFiles}
               \cup {[fn |-> "usage", exists |-> FALSE, lines |-> <<>>,
                      done |-> FALSE, result |-> [shown |-> "", by |-> NoUsage]]}

ApplyUsage ==
    /\ call.fn = "usage" /\ ~call.done
    /\ call' = [call EXCEPT !.done = TRUE,
                            !.result = usage_summary(call.exists, call.lines)]
    /\ UNCHANGED appVars

SpecUsage == InitUsage /\ [][ApplyUsage]_vars

\* The log file of the application: the characters of each text that
\* log_line was called with, behind the timestamp of its write.
TextLater == <<"L","a","u","n","c","h","i","n","g"," ","p","r","o","f","i","l","e",":"," ","L","a","t","e","r">>

LineChars(text) ==
    CASE text = "Launching profile: Morning" -> TextMorning
      [] text = "Launching profile: Evening" -> TextEvening
      [] text = "Launching profile: Later" -> TextLater
      [] text = "Launching profile: Selected Items" -> TextSelected
      [] OTHER -> TextScheduled

LogFileOf(log) == [i \in 1..Len(log) |-> FileLine(StampAt(i), LineChars(log[i].text))]

(***************************************************************************)
(* Reading a time text, as the specification words it: an optional am/pm   *)
(* suffix, then an hour and a minute around one colon.                     *)
(***************************************************************************)
AmPmOf(n) == IF EndsWith(n, AM) THEN AM ELSE IF EndsWith(n, PM) THEN PM ELSE <<>>
ClockPart(n) == SubSeq(n, 1, Len(n) - Len(AmPmOf(n)))
ColonsOf(b) == {i \in 1..Len(b) : b[i] = ":"}
HourPart(b) == SubSeq(b, 1, (CHOOSE i \in ColonsOf(b) : TRUE) - 1)
MinutePart(b) == SubSeq(b, (CHOOSE i \in ColonsOf(b) : TRUE) + 1, Len(b))
Hour24(h, ampm) ==
    IF ampm = PM /\ h # 12 THEN h + 12
    ELSE IF ampm = AM /\ h = 12 THEN 0 ELSE h

ReadsAsTime(n) ==
    LET b == ClockPart(n) IN
    /\ Cardinality(ColonsOf(b)) = 1
    /\ PyIntOk(HourPart(b)) /\ PyIntOk(MinutePart(b))
    /\ Hour24(PyInt(HourPart(b)), AmPmOf(n)) \in 0..23
    /\ PyInt(MinutePart(b)) \in 0..59

SecondsRead(n) ==
    LET b == ClockPart(n) IN
    Hour24(PyInt(HourPart(b)), AmPmOf(n)) * 3600 + PyInt(MinutePart(b)) * 60

\* The result of the call agrees with reading the text n.
ParsedAs(n) ==
    /\ call.result.none <=> ~ReadsAsTime(n)
    /\ ~call.result.none =>
          /\ call.result.secs = SecondsRead(n)
          /\ call.result.secs % 60 = 0
          /\ call.result.secs \in 0..86340

ParseExamples ==
    /\ call.timestr = T_0830 => call.result = Time(30600)
    /\ call.timestr = T_830am => call.result = Time(30600)
    /\ call.timestr = T_830PM => call.result = Time(73800)
    /\ call.timestr = T_2030 => call.result = Time(73800)
    /\ call.timestr \in {T2500, T_870am, T_abc, <<>>} => call.result = NoTime

\* C8 as stated: _parse_time_to_seconds returns None exactly when the text,
\* trimmed, lower-cased and without its am/pm suffix, is not an hour and a
\* minute (two integers around one colon) in range.
C8_ParseAfterTrimming ==
    (call.fn = "parse" /\ call.done) =>
        ParsedAs(Lower(Strip(call.timestr))) /\ ParseExamples

\* C8, amended: _parse_time_to_seconds returns None exactly when the text,
\* trimmed, lower-cased, with every space removed and without its am/pm
\* suffix, is not an hour and a minute in range; otherwise it returns
\* hour*3600 + minute*60, a multiple of 60 in [0, 86340].  It accepts
\* "08:30", "8:30am", "8:30PM", "20:30" and rejects "25:00", "8:70am", "abc", "".
C8_ParseAfterRemovingSpaces ==
    (call.fn = "parse" /\ call.done) =>
        ParsedAs(RemoveSpaces(Lower(Strip(call.timestr)))) /\ ParseExamples

\* A text with a space inside its hour was parsed, and accepted.
C8_Witness ==
    /\ call.fn = "parse" /\ call.done
    /\ call.timestr = T_1s230
    /\ call.result = Time(45000)

\* C7: the delay is (target - now) mod 86400: in [0, 86399], 0 when the
\* target is now, target + 86400 - now when the target is earlier than now,
\* target - now when it is later; 23:50:00 to "00:10" is 1200 seconds,
\* 10:00:00 to "10:00" is 0, 08:00:00 to "6:00pm" is 36000.
C7_DelayIsDifferenceModuloDay ==
    (call.fn = "delay" /\ call.done /\ ~call.target.none) =>
        LET t == call.target.secs
            n == call.now.hour * 3600 + call.now.minute * 60 + call.now.second
            d == call.delay
        IN  /\ d \in 0..86399
            /\ t = n => d = 0
            /\ t < n => d = t + 86400 - n
            /\ t > n => d = t - n
            /\ (call.now = Clock(23, 50, 0) /\ call.timestr = T_0010) => d = 1200
            /\ (call.now = Clock(10, 0, 0) /\ call.timestr = T1000) => d = 0
            /\ (call.now = Clock(8, 0, 0) /\ call.timestr = T_600pm) => d = 36000

\* The delay from 23:50:00 to "00:10" was computed, and wrapped past midnight.
C7_Witness ==
    /\ call.fn = "delay" /\ call.done
    /\ call.now = Clock(23, 50, 0) /\ call.timestr = T_0010
    /\ call.target = Time(600) /\ call.delay = 1200

(***************************************************************************)
(* launch_item, one call.                                                  *)
(***************************************************************************)
CallsOf(res, op) == {i \in 1..Len(res.calls) : res.calls[i].op = op}

\* The enumeration shows a process whose lower-cased name is exe before it
\* breaks off.
ProbeReports(exe, enum) ==
    \E i \in 1..Len(enum) :
        /\ enum[i].kind = "name" /\ Lower(enum[i].name) = exe
        /\ \A j \in 1..(i - 1) : enum[j].kind # "iterfail"

\* C4: for an item of type "app", launch_item returns "Already running:
\* <label>" without a spawn if and only if avoid_duplicates is set, the
\* lower-cased base name of the target ends in ".exe" and the probe reports
\* a process of that name; in every other case it attempts exactly one spawn
\* of the target.
C4_SuppressedIffProbeReportsRunning ==
    (call.fn = "launch_item" /\ call.done /\ ItemType(call.item) = "app") =>
        LET res    == call.result
            target == ItemTarget(call.item)
            exe    == Lower(Basename(target, call.platform))
            dup    == /\ call.avoid_duplicates
                      /\ EndsWith(exe, ExeSuffix)
                      /\ ProbeReports(exe, call.enum)
            suppressed ==
                      /\ ~res.raised
                      /\ res.msg = "Already running: " \o PyStr(ItemLabel(call.item))
                      /\ CallsOf(res, "spawn") = {}
        IN  /\ dup <=> suppressed
            /\ ~dup => /\ Cardinality(CallsOf(res, "spawn")) = 1
                       /\ \A i \in CallsOf(res, "spawn") :
                              res.calls[i] = OsCall("spawn", target)

\* C5: for an item whose type is not "app", launch_item neither spawns nor
\* probes: "url" opens the target once and returns "Opened URL: <label>";
\* any other type, or none, does nothing and returns "Unknown item type:
\* <type>".  No call makes more than one spawn or URL-open.
C5_NonAppNeverSpawnsOrProbes ==
    (call.fn = "launch_item" /\ call.done) =>
        LET res   == call.result
            itype == ItemType(call.item)
        IN  /\ itype # "app" =>
                 /\ ~res.raised
                 /\ CallsOf(res, "spawn") = {} /\ CallsOf(res, "probe") = {}
            /\ itype = "url" =>
                 /\ res.calls = <<OsCall("url", ItemTarget(call.item))>>
                 /\ res.msg = "Opened URL: " \o PyStr(ItemLabel(call.item))
            /\ itype \notin {"url", "app"} =>
                 /\ res.calls = <<>>
                 /\ res.msg = "Unknown item type: " \o PyStr(itype)
            /\ Cardinality(CallsOf(res, "spawn") \cup CallsOf(res, "url")) <= 1

\* An item of the unrecognised type "URL", whose target could be spawned,
\* was handed to launch_item, which reported it and did nothing.
C5_Witness ==
    /\ call.fn = "launch_item" /\ call.done
    /\ ItemType(call.item) = "URL" /\ call.popen = "ok"
    /\ "target" \in DOMAIN call.item
    /\ call.result = Returned("Unknown item type: URL", <<>>)

(***************************************************************************)
(* What a sequencer thread is to have done by the statement it is at.      *)
(***************************************************************************)
IsPrefix(a, b) == Len(a) <= Len(b) /\ a = SubSeq(b, 1, Len(a))

\* The texts of the lines that thread r wrote to a widget or file.
Texts(lines, r) ==
    LET own == SelectSeq(lines, LAMBDA l : l.run = r)
    IN  [i \in 1..Len(own) |-> own[i].text]

\* The positions <<group, index>> of the items of a run, in input order.
RECURSIVE FlatFrom(_, _)
FlatFrom(r, g) ==
    IF g > Len(r.names) THEN <<>>
    ELSE [i \in 1..Len(GroupItems(r, g)) |-> <<g, i>>] \o FlatFrom(r, g + 1)

Flat(r) == FlatFrom(r, 1)

\* Item outcomes already in the status area; groups whose status header,
\* and whose log line, are written.
OutcomesShown(r) == Len(r.msgs) - (IF r.pc = "status" THEN 1 ELSE 0)

HeaderShown(r, g) ==
    \/ g < r.pi
    \/ g = r.pi /\ r.pc \in {"log", "item", "status", "read", "write", "failed"}

HeaderLogged(r, g) ==
    \/ g < r.pi
    \/ g = r.pi /\ r.pc \in {"item", "status", "read", "write", "failed"}

OutcomeLines(r, g) ==
    LET ks == SelectSeq([k \in 1..OutcomesShown(r) |-> k],
                        LAMBDA k : Flat(r)[k][1] = g)
    IN  [j \in 1..Len(ks) |-> "  - " \o r.msgs[ks[j]]]

RECURSIVE GroupLines(_, _)
GroupLines(r, g) ==
    IF g > Len(r.names) THEN <<>>
    ELSE (IF HeaderShown(r, g) THEN <<"Launching: " \o r.names[g]>> ELSE <<>>)
         \o OutcomeLines(r, g) \o GroupLines(r, g + 1)

ExpectedStatus(r) ==
    (IF r.timer # 0 THEN <<"Launching (scheduled): " \o r.names[1]>> ELSE <<>>)
    \o GroupLines(r, 1)
    \o (IF r.pc = "done" THEN <<"Done.">> ELSE <<>>)

ExpectedLog(r) ==
    LET gs == SelectSeq([g \in 1..Len(r.names) |-> g],
                        LAMBDA g : HeaderLogged(r, g))
    IN  [j \in 1..Len(gs) |-> "Launching profile: " \o r.names[gs[j]]]

\* C1: a sequencer run calls launch_item once per item, in input order,
\* skipping and repeating none; the status area holds one outcome line per
\* item launched, in the same order, between the run's own header and Done
\* lines; and an item is launched only when the outcome of the one before it
\* is in the status area.
C1_ItemsLaunchedAndReportedInOrder ==
    \A r \in 1..Len(runs) :
        LET run == runs[r] IN
        /\ IsPrefix(run.launched, Flat(run))
        /\ Len(run.msgs) = Len(run.launched) - (IF run.pc = "failed" THEN 1 ELSE 0)
        /\ Texts(status, r) = ExpectedStatus(run)
        /\ run.pc = "item" => OutcomesShown(run) = Len(run.launched)
        /\ run.pc = "done" => run.launched = Flat(run)

\* A batch run over three profiles is done: five items launched, and seven
\* lines of its own in the status area besides "Done.".
C1_Witness ==
    \E r \in 1..Len(runs) :
        /\ runs[r].pc = "done" /\ Len(runs[r].names) = 3
        /\ Len(runs[r].launched) = 5
        /\ Len(Texts(status, r)) = 9

C3_ProgressCountsItems ==
    \A r \in 1..Len(runs) :
        (r = Len(runs) /\ runs[r].alone) =>
            LET run  == runs[r]
                N    == Len(Flat(run))
                over == Len(run.launched)
                          - (IF run.pc \in {"status", "read", "write", "failed"}
                             THEN 1 ELSE 0)
            IN  /\ run.pc # "start" => progress.value = over
                /\ run.pc \notin {"start", "setmax"} =>
                       progress.maximum = (IF N = 0 THEN 1 ELSE N)
                /\ run.pc = "done" => progress.value = N

\* A batch run over three profiles is done with progress 5 of 5.
C3_Witness ==
    \E r \in 1..Len(runs) :
        /\ r = Len(runs) /\ runs[r].alone
        /\ runs[r].pc = "done" /\ Len(runs[r].names) = 3
        /\ progress = [value |-> 5, maximum |-> 5]

\* C10: a failure of the process enumeration never aborts a run: a run
\* that ended in the except clause got there from a spawn, not from a probe.
C10_ProbeFailureNeverAbortsRun ==
    \A r \in 1..Len(runs) :
        runs[r].pc = "failed" =>
            /\ runs[r].calls # <<>>
            /\ runs[r].calls[Len(runs[r].calls)].op = "spawn"

\* The dialogs that thread r raised.
DialogsOf(r) == SelectSeq(dialogs, LAMBDA d : d.run = r)

AbortedRunKeepsItsRecord ==
    \A r \in 1..Len(runs) :
        LET run == runs[r] IN
        /\ Len(run.launched) # Len(run.msgs) => run.pc = "failed"
        /\ run.pc # "failed" => DialogsOf(r) = <<>>
        /\ run.pc = "failed" =>
              /\ IsPrefix(run.launched, Flat(run))
              /\ Len(run.msgs) = Len(run.launched) - 1
              /\ DialogsOf(r) = <<Dialog(r, "error", "Launch Error")>>
              /\ Texts(status, r) = ExpectedStatus(run)
              /\ Texts(logfile, r) = ExpectedLog(run)
              /\ (run.alone /\ r = Len(runs)) =>
                     progress.value = Len(run.launched) - 1
        /\ run.pc = "done" => run.launched = Flat(run)

AbortStopsOnlyItsOwnRun ==
    \A r \in 1..Len(runs) :
        /\ runs[r].pc = "failed" =>
              /\ runs'[r] = runs[r]
              /\ Texts(status', r) = Texts(status, r)
              /\ Texts(logfile', r) = Texts(logfile, r)
              /\ DialogsOf(r)' = DialogsOf(r)
        /\ (runs[r].pc # "failed" /\ runs'[r].pc = "failed") =>
              /\ \A q \in 1..Len(runs) : q # r => runs'[q] = runs[q]
              /\ UNCHANGED <<progress, status, logfile, procs>>

RunsOfTimer(t) == {r \in 1..Len(runs) : runs[r].timer = t}

TimerRunsOnce ==
    /\ \A r \in 1..Len(runs) : runs[r].timer \in 1..Len(timers)
    /\ \A t \in 1..Len(timers) :
          IF timers[t].state = "pending"
          THEN RunsOfTimer(t) = {}
          ELSE /\ Cardinality(RunsOfTimer(t)) = 1
               /\ \A r \in RunsOfTimer(t) :
                      runs[r].kind = "profiles" /\ runs[r].names = <<timers[t].name>>

ScheduleArmsIffValid ==
    \A timestr \in SchedTexts : \A now \in SchedClocks :
        ScheduleSelected(timestr, now) =>
            IF selected # "" /\ ReadsAsTime(RemoveSpaces(Lower(Strip(timestr))))
            THEN /\ Len(timers') = Len(timers) + 1
                 /\ SubSeq(timers', 1, Len(timers)) = timers
                 /\ timers'[Len(timers')].name = selected
                 /\ timers'[Len(timers')].state = "pending"
            ELSE timers' = timers

TimersOnlyArmedOrFired ==
    /\ Len(timers') >= Len(timers)
    /\ \A t \in 1..Len(timers) :
          /\ timers'[t].name = timers[t].name
          /\ timers[t].state = "fired" => timers'[t].state = "fired"
    /\ \A r \in 1..Len(runs) : runs'[r].timer = runs[r].timer

\* C6: a schedule call arms one timer for the selected profile when its
\* time string is a valid time, and none when the string is invalid, the
\* dialog was cancelled or no profile is selected; a timer starts no run
\* while it is pending and exactly one run, of the profile it was armed for,
\* once it has fired, and no run starts without a timer; while the
\* application keeps running, every armed timer fires.
C6_ValidScheduleFiresExactlyOnce ==
    /\ []TimerRunsOnce
    /\ [][ScheduleArmsIffValid /\ TimersOnlyArmedOrFired]_vars
    /\ \A t \in 1..SchedOps :
          (t \in DOMAIN timers /\ timers[t].state = "pending")
              ~> (~alive \/ (t \in DOMAIN timers /\ timers[t].state = "fired"))

\* A timer armed for Morning has fired and the run it started is done.
C6_Witness ==
    /\ alive
    /\ \E t \in 1..Len(timers) :
          /\ timers[t].state = "fired" /\ timers[t].name = "Morning"
          /\ \E r \in RunsOfTimer(t) :
                 runs[r].pc = "done" /\ Len(runs[r].launched) = 1

(***************************************************************************)
(* A target that is not found.                                             *)
(***************************************************************************)
\* The k-th item of a run, in input order.
ItemAt(r, k) == GroupItems(r, Flat(r)[k][1])[Flat(r)[k][2]]

\* The last OS call of run r was a spawn of a target the host does not have.
SpawnedMissing(r) ==
    /\ r.calls # <<>>
    /\ r.calls[Len(r.calls)].op = "spawn"
    /\ Popen(r.calls[Len(r.calls)].arg) = "notfound"

NotFoundMessage(item) ==
    "Not found: " \o PyStr(ItemLabel(item)) \o " (" \o Join(ItemTarget(item)) \o ")"

\* C11: a spawn whose target is not found does not end the run: launch_item
\* returns "Not found: <label> (<target>)", the message gets its status line
\* and its progress step like any other outcome, and the items after it are
\* launched in order; no run is ever aborted by a target that is not found.
C11_NotFoundIsAnOutcome ==
    \A r \in 1..Len(runs) :
        LET run == runs[r] IN
        /\ run.pc = "failed" => ~SpawnedMissing(run)
        /\ IsPrefix(run.launched, Flat(run))
        /\ Texts(status, r) = ExpectedStatus(run)
        /\ run.pc = "done" => run.launched = Flat(run)
        /\ \A k \in 1..Len(run.msgs) :
              LET item == ItemAt(run, k) IN
              (/\ ItemType(item) = "app"
               /\ Popen(ItemTarget(item)) = "notfound"
               /\ run.msgs[k] # "Already running: " \o PyStr(ItemLabel(item))) =>
                  /\ run.msgs[k] = NotFoundMessage(item)
                  /\ (run.alone /\ r = Len(runs) /\ Len(run.launched) > k) =>
                         progress.value >= k

\* A batch run whose third item was not found is done: all five items were
\* launched and the progress is 5 of 5.
C11_Witness ==
    \E r \in 1..Len(runs) :
        /\ runs[r].pc = "done" /\ runs[r].alone /\ r = Len(runs)
        /\ Len(runs[r].launched) = 5
        /\ runs[r].msgs[3] = "Not found: Sync (/o/sync)"
        /\ "  - Not found: Sync (/o/sync)" \in
               {Texts(status, r)[i] : i \in 1..Len(Texts(status, r))}
        /\ progress = [value |-> 5, maximum |-> 5]

(***************************************************************************)
(* The usage summary, read off the lines of the log.                       *)
(***************************************************************************)
\* The lines that carry the marker, the name each gives (the text after the
\* marker, trimmed) and the timestamp each starts with.
MarkedLines(lines) == {i \in 1..Len(lines) : Contains(lines[i], Marker)}

MarkedName(line) ==
    Strip(SubSeq(line, Find(line, Marker) + Len(Marker), Len(line)))

LineStamp(line) == SubSeq(line, 1, Find(line, Dash) - 1)

LinesNaming(lines, n) == {i \in MarkedLines(lines) : MarkedName(lines[i]) = n}

LastOf(S) == CHOOSE i \in S : \A j \in S : j <= i

\* C12: the summary names exactly the profiles that marked lines name, the
\* count of each is the number of lines naming it, its last-used timestamp
\* is that of the last such line, the total is the sum of the counts (the
\* number of marked lines: other lines add nothing), and the most used
\* profile has the largest count; three Morning lines and one Evening line
\* give Morning 3, Evening 1, most used Morning, total 4.
C12_SummaryCountsMarkedLines ==
    (call.fn = "usage" /\ call.done) =>
        LET res   == call.result
            by    == res.by
            lines == call.lines
            K     == 1..Len(by.names)
        IN  /\ {by.names[k] : k \in K} = {MarkedName(lines[i]) : i \in MarkedLines(lines)}
            /\ \A j, k \in K : by.names[j] = by.names[k] => j = k
            /\ \A k \in K :
                  /\ by.count[k] = Cardinality(LinesNaming(lines, by.names[k]))
                  /\ by.last[k] = LineStamp(lines[LastOf(LinesNaming(lines, by.names[k]))])
            /\ res.shown = "Usage Summary" <=> MarkedLines(lines) # {}
            /\ res.shown = "Usage Summary" =>
                  /\ res.total_launches = SumSeq(by.count)
                  /\ res.total_launches = Cardinality(MarkedLines(lines))
                  /\ \E k \in K :
                        /\ by.names[k] = res.most_used
                        /\ \A j \in K : by.count[j] <= by.count[k]
            /\ lines = <<FileLine(StampAt(1), TextMorning), FileLine(StampAt(2), TextEvening),
                         FileLine(StampAt(3), TextMorning), FileLine(StampAt(4), TextMorning)>> =>
                  /\ by.names = <<<<"M","o","r","n","i","n","g">>, <<"E","v","e","n","i","n","g">>>>
                  /\ by.count = <<3, 1>>
                  /\ res.most_used = <<"M","o","r","n","i","n","g">>
                  /\ res.total_launches = 4

\* The summary of a log with a schedule line, two launches of Morning, one
\* written with spaces around the name, and a launch of Evening: Morning 2,
\* last used at the fourth write, Evening 1, total 3.
C12_Witness ==
    /\ call.fn = "usage" /\ call.done
    /\ call.lines = <<FileLine(StampAt(1), TextScheduled), FileLine(StampAt(2), TextMorning),
                      FileLine(StampAt(3), TextEvening), FileLine(StampAt(4), TextPadded)>>
    /\ call.result.shown = "Usage Summary"
    /\ call.result.by.count = <<2, 1>>
    /\ call.result.by.last[1] = StampAt(4)
    /\ call.result.total_launches = 3

(***************************************************************************)
(* Several timers.                                                         *)
(***************************************************************************)
\* The schedule calls that went through: log_line of line 534.
ArmedCalls == Len(SelectSeq(logfile, LAMBDA l : l.run = 0))

TimersAreIndependent ==
    /\ Len(timers) = ArmedCalls
    /\ \A t \in 1..Len(timers) :
          /\ Cardinality(RunsOfTimer(t)) = (IF timers[t].state = "fired" THEN 1 ELSE 0)
          /\ timers[t].state = "pending" => (ENABLED TimerFire(t) <=> alive)
    /\ \A r \in 1..Len(runs) :
          /\ runs[r].timer \in 1..Len(timers)
          /\ runs[r].names = <<timers[runs[r].timer].name>>

TimersAreKept ==
    /\ Len(timers') \in {Len(timers), Len(timers) + 1}
    /\ Len(timers') = Len(timers) + 1 =>
          /\ timers'[Len(timers')].state = "pending"
          /\ SubSeq(timers', 1, Len(timers)) = timers
    /\ (budget' # budget \/ alive' # alive) =>
          \A t \in 1..Len(timers) : timers'[t] = timers[t]
    /\ \A t \in 1..Len(timers) :
          /\ timers'[t].name = timers[t].name
          /\ timers'[t].delay = timers[t].delay
          /\ timers'[t].state # timers[t].state =>
                /\ alive /\ timers[t].state = "pending" /\ timers'[t].state = "fired"
                /\ Len(runs') = Len(runs) + 1
                /\ runs'[Len(runs')].timer = t
                /\ \A u \in 1..Len(timers) : u # t => timers'[u] = timers[u]

\* C13: there are as many timers as schedule calls that went through; a
\* later call, and any other user operation, leaves every earlier timer as
\* it is, with its profile and its delay; a timer changes only by firing,
\* which it can do at any time while the application runs and no more after
\* exit, alone and in any order, and which starts one run of its own; and
\* while the application runs every pending timer fires.
C13_TimersIndependentAndKept ==
    /\ []TimersAreIndependent
    /\ [][TimersAreKept]_vars
    /\ \A t \in 1..SchedOps :
          (alive /\ t \in DOMAIN timers /\ timers[t].state = "pending")
              ~> (~alive \/ (t \in DOMAIN timers /\ timers[t].state = "fired"))

\* Two timers were armed for the same profile with different delays; the
\* second has fired and its run is done while the first is still pending.
C13_Witness ==
    /\ alive /\ Len(timers) = 2
    /\ timers[1].name = timers[2].name /\ timers[1].delay # timers[2].delay
    /\ timers[1].state = "pending" /\ timers[2].state = "fired"
    /\ \E r \in RunsOfTimer(2) : runs[r].pc = "done"

(***************************************************************************)
(* Runs that overlap.                                                      *)
(***************************************************************************)
\* The items run r is done with, and the maximum it sets.
ItemsDone(r) ==
    Len(r.launched) - (IF r.pc \in {"status", "read", "write", "failed"} THEN 1 ELSE 0)

OwnMaximum(r) == IF Len(Flat(r)) = 0 THEN 1 ELSE Len(Flat(r))

EveryRunWritesItsLines ==
    \A r \in 1..Len(runs) :
        /\ Texts(status, r) = ExpectedStatus(runs[r])
        /\ Texts(logfile, r) = ExpectedLog(runs[r])

\* Each run writes the one progress bar as if it were alone.
ProgressIsSharedUnlocked ==
    /\ \A r \in 1..Len(runs) :
          /\ (runs[r].pc = "start" /\ runs'[r].pc = "setmax") =>
                 progress' = [progress EXCEPT !.value = 0]
          /\ (runs[r].pc = "setmax" /\ runs'[r].pc # "setmax") =>
                 progress' = [progress EXCEPT !.maximum = OwnMaximum(runs[r])]
          /\ (runs[r].pc = "read" /\ runs'[r].pc = "write") =>
                 runs'[r].tmp = progress.value /\ progress' = progress
          /\ (runs[r].pc = "write" /\ runs'[r].pc # "write") =>
                 progress' = [progress EXCEPT !.value = runs[r].tmp + 1]
    /\ progress' # progress =>
          \E r \in 1..Len(runs) :
              runs[r].pc \in {"start", "setmax", "write"} /\ runs'[r].pc # runs[r].pc

\* C14: runs that overlap each write every line of their own to the status
\* area and the log, and all write one progress bar without a lock: a run
\* that starts sets the value to 0 and the maximum to its own total whatever
\* another run has counted, and a run that goes on adds 1 to the value it
\* read whatever the maximum is.
C14_OverlappingRunsShareProgress ==
    []EveryRunWritesItsLines /\ [][ProgressIsSharedUnlocked]_vars

\* A batch run of two items and a later run of one item have overlapped and
\* are both done, each with all its lines written; the progress bar shows 3
\* of 1, which is neither run's count nor the earlier run's total.
C14_Witness ==
    /\ Len(runs) = 2
    /\ runs[1].pc = "done" /\ runs[2].pc = "done"
    /\ ~runs[1].alone /\ ~runs[2].alone
    /\ Len(runs[1].launched) = 2 /\ Len(runs[2].launched) = 1
    /\ progress.value > progress.maximum
    /\ progress.value \notin {ItemsDone(runs[1]), ItemsDone(runs[2])}
    /\ progress.maximum # OwnMaximum(runs[1])
    /\ Texts(status, 1)[Len(Texts(status, 1))] = "Done."
    /\ Texts(status, 2)[Len(Texts(status, 2))] = "Done."

(***************************************************************************)
(* The log and the usage summary after launches.                           *)
(***************************************************************************)
\* The groups <<run, index>> of name n whose processing has reached the
\* log_line call, and those of runs that have ended.
AllGroups ==
    UNION {{<<r, g>> : g \in 1..Len(runs[r].names)} : r \in 1..Len(runs)}

GroupsLogged(n) ==
    {p \in AllGroups :
        /\ runs[p[1]].names[p[2]] = n
        /\ HeaderLogged(runs[p[1]], p[2])}

GroupsBegun(n) ==
    {p \in AllGroups :
        /\ runs[p[1]].names[p[2]] = n
        /\ p[2] <= (IF runs[p[1]].pc = "done" THEN Len(runs[p[1]].names)
                    ELSE runs[p[1]].pi)}

NameChars(n) == MarkedName(LineChars("Launching profile: " \o n))

CountOf(res, n) ==
    LET ks == {k \in 1..Len(res.by.names) : res.by.names[k] = n}
    IN  IF ks = {} THEN 0 ELSE res.by.count[CHOOSE k \in ks : TRUE]

LoggedNames == {"Morning", "Evening", "Later", "Selected Items"}

\* C15: a run writes "Launching profile: <name>" to the log once for each
\* profile it processes ("Selected Items" for a selected-items run), before
\* it launches an item of that profile, also when the profile has no items
\* and when the run is aborted later; so once the runs have ended, the usage
\* summary of the log counts, for each name, the times a run began to
\* process it.
C15_OneLogLinePerProfileProcessed ==
    /\ \A r \in 1..Len(runs) :
          LET run == runs[r] IN
          /\ Texts(logfile, r) = ExpectedLog(run)
          /\ \A k \in 1..Len(run.launched) : HeaderLogged(run, run.launched[k][1])
          /\ run.pc = "done" =>
                 Texts(logfile, r) =
                     [g \in 1..Len(run.names) |-> "Launching profile: " \o run.names[g]]
          /\ run.pc = "failed" =>
                 Texts(logfile, r) =
                     [g \in 1..run.pi |-> "Launching profile: " \o run.names[g]]
          /\ run.kind = "items" => run.names = <<"Selected Items">>
    /\ LET res == usage_summary(logfile # <<>>, LogFileOf(logfile)) IN
       \A n \in LoggedNames :
          /\ CountOf(res, NameChars(n)) = Cardinality(GroupsLogged(n))
          /\ Idle => CountOf(res, NameChars(n)) = Cardinality(GroupsBegun(n))

\* After a batch run that was aborted at the last item of its second
\* profile and a selected-items run of two items, the summary counts
\* Morning, of three items, once, Evening once, Selected Items once, and
\* Later, which the batch run did not reach, not at all.
C15_Witness ==
    /\ Len(runs) = 2 /\ Idle
    /\ runs[1].pc = "failed" /\ Len(runs[1].names) = 3 /\ Len(runs[1].launched) = 5
    /\ runs[2].pc = "done" /\ runs[2].kind = "items" /\ Len(runs[2].launched) = 2
    /\ LET res == usage_summary(TRUE, LogFileOf(logfile)) IN
          /\ CountOf(res, NameChars("Morning")) = 1
          /\ CountOf(res, NameChars("Evening")) = 1
          /\ CountOf(res, NameChars("Selected Items")) = 1
          /\ CountOf(res, NameChars("Later")) = 0
          /\ res.total_launches = 3

=============================================================================
